---- MODULE Spec2Model ----
(***************************************************************************)
(* Model of the Dymo label web application: the recency store of           *)
(* web_app.py (_saved_labels and its persistence file), the HTTP handlers  *)
(* /preview, /print and /memory, the renderer's size check and the         *)
(* printer service's print_image with its temporary file.                  *)
(*                                                                         *)
(* Python values are tagged records: Str(s) is a str, Num(n) an int and    *)
(* Uuid(n) the n-th string produced by str(uuid.uuid4()).  A dict is a     *)
(* function from key strings to values, a list is a sequence.              *)
(***************************************************************************)
EXTENDS Integers, Sequences, FiniteSets, TLC

VARIABLES
    _saved_labels,  \* web_app._saved_labels: the in-memory list of entries
    file,           \* the content of _MEMORY_FILE on disk
    tmpfiles,       \* names of the temporary image files that exist on disk
    nuuid,          \* how many uuid4 values were drawn so far
    sync,           \* the outcome of the latest file write since the start
    seed_unique,    \* the list of the first start had one entry per dedup key
    last,           \* what the latest start or call did (history)
    removed,        \* the ids that left the list since the store was empty (history)
    threads         \* the position and the locals of each thread inside a store call

vars == <<_saved_labels, file, tmpfiles, nuuid, sync, seed_unique, last, removed, threads>>

\* ------------------------------------------------------------- bounds
\* How many entries are saved, each with a new uuid4.
MaxUuid == 3
\* How many temporary files are left on disk.
MaxLeaks == 1

\* ------------------------------------------------------ Python values
Str(s) == [t |-> "str", v |-> s]
Num(n) == [t |-> "int", v |-> n]
Uuid(n) == [t |-> "uuid", v |-> n]

\* The decimal strings the model uses, with the number each one denotes.
Digits == ("1" :> 1) @@ ("2" :> 2) @@ ("7" :> 7) @@ ("12" :> 12) @@ ("40" :> 40)

\* int(x) succeeds on an int and on a str holding a decimal number.
IntOk(x) == x.t = "int" \/ (x.t = "str" /\ x.v \in DOMAIN Digits)

\* int(x): an int is kept, a decimal str is parsed.
int(x) == IF x.t = "int" THEN x ELSE Num(Digits[x.v])

\* str(x): a str is kept, an int is printed in decimal.
str(x) ==
    IF x.t = "int"
    THEN Str(CHOOSE s \in DOMAIN Digits : Digits[s] = x.v)
    ELSE x

\* dict.get(key, default)
get(d, k, default) == IF k \in DOMAIN d THEN d[k] ELSE default

\* The empty dict.
EmptyDict == [k \in {} |-> Str("")]

\* ------------------------------------------------------------- config
DEFAULT_LABEL_SIZE == Str("11354")
DEFAULT_FONT_SIZE == 40
DEFAULT_DPI == 300

LABEL_SIZES ==
    ("11354" :> [width_mm |-> 57, height_mm |-> 32,  cups |-> "w162h90"])  @@
    ("30252" :> [width_mm |-> 28, height_mm |-> 89,  cups |-> "w79h252"])  @@
    ("30323" :> [width_mm |-> 54, height_mm |-> 101, cups |-> "w153h286"]) @@
    ("30256" :> [width_mm |-> 59, height_mm |-> 101, cups |-> "w167h286"]) @@
    ("99012" :> [width_mm |-> 89, height_mm |-> 36,  cups |-> "w252h102"])

\* label_size in LABEL_SIZES: the codes are str keys.
InCatalog(label_size) == label_size.t = "str" /\ label_size.v \in DOMAIN LABEL_SIZES

\* --------------------------------------------------------- exceptions
NoExc == [type |-> "none", msg |-> "", arg |-> Str("")]
Exc(type, msg, arg) == [type |-> type, msg |-> msg, arg |-> arg]

\* ------------------------------------------------------ recency store
\* _label_key(payload): the dedup key of a payload or of a stored entry.
_label_key(payload) ==
    << get(payload, "text", Str("")),
       get(payload, "label_size", DEFAULT_LABEL_SIZE),
       int(get(payload, "font_size", Num(DEFAULT_FONT_SIZE))),
       get(payload, "align", Str("center")),
       int(get(payload, "copies", Num(1))) >>

\* An entry that is the payload as it was sent, with an id.
new_entry_as_sent(payload, id) == ("id" :> id) @@ payload

\* The entry _save_label builds for a payload, with a fresh id.
new_entry(payload, id) ==
    ("id" :> id) @@
    ("text" :> get(payload, "text", Str(""))) @@
    ("label_size" :> get(payload, "label_size", DEFAULT_LABEL_SIZE)) @@
    ("font_size" :> int(get(payload, "font_size", Num(DEFAULT_FONT_SIZE)))) @@
    ("align" :> get(payload, "align", Str("center"))) @@
    ("copies" :> int(get(payload, "copies", Num(1))))

\* A filter that removes nothing.
without_key_keeps_all(labels, key) == labels

\* The list comprehension of _save_label: the entries with another key.
without_key(labels, key) == SelectSeq(labels, LAMBDA entry : _label_key(entry) # key)

\* A save that moves an entry with the key to the front instead of replacing it.
_save_label_moves_entry(labels, payload, id) ==
    LET same == SelectSeq(labels, LAMBDA entry : _label_key(entry) = _label_key(payload))
    IN  <<IF same = <<>> THEN new_entry(payload, id) ELSE same[1]>> \o
        SelectSeq(labels, LAMBDA entry : _label_key(entry) # _label_key(payload))

\* A _save_label that numbers the entries: the id is the length of the list
\* plus one.
_save_label_numbers_entries(labels, payload, id) ==
    <<new_entry(payload, Uuid(Len(labels) + 1))>> \o without_key(labels, _label_key(payload))

\* _save_label without its _persist_memory call: the list it leaves.
_save_label(labels, payload, id) ==
    <<new_entry(payload, id)>> \o without_key(labels, _label_key(payload))

\* The elements of a list, as set(ids) gives them.
set(ids) == {ids[i] : i \in 1..Len(ids)}

\* A delete that honours only the first id given.
_delete_labels_first_id(labels, ids) ==
    IF ids = <<>> THEN labels
    ELSE SelectSeq(labels, LAMBDA entry : entry["id"] # ids[1])

\* _delete_labels without its _persist_memory call: the list it leaves.
_delete_labels(labels, ids) ==
    SelectSeq(labels, LAMBDA entry : entry["id"] \notin set(ids))

\* -------------------------------------------------------- persistence
\* The keys of an entry in the order json.dump writes them.
FieldOrder == <<"id", "text", "label_size", "font_size", "align", "copies">>

\* json.dump of one value: a str becomes a JSON string, an int a number.
json_value(x) == IF x.t = "int" THEN [j |-> "number", py |-> x.v]
                 ELSE [j |-> "string", py |-> x]

\* json.load of one value.
py_value(tok) == IF tok.j = "number" THEN Num(tok.py) ELSE tok.py

\* json.dump of a dict: its members, as <<key, value>> pairs in order.
json_object(d) ==
    LET keys == SelectSeq(FieldOrder, LAMBDA k : k \in DOMAIN d)
    IN  [i \in 1..Len(keys) |-> <<keys[i], json_value(d[keys[i]])>>]

\* json.dump of the list.
json_dump(labels) == [i \in 1..Len(labels) |-> json_object(labels[i])]

\* json.load of an object: a dict of its members.
py_object(members) ==
    [k \in {members[i][1] : i \in 1..Len(members)} |->
        py_value((CHOOSE m \in set(members) : m[1] = k)[2])]

\* json.load of an array.
json_load(text) == [i \in 1..Len(text) |-> py_object(text[i])]

\* The number of characters json.dump writes for an int, a value, an object
\* and the list, with its separators ', ' and ': '.  str(uuid.uuid4()) has 36
\* characters.
digits(n) == IF n < 10 THEN 1 ELSE IF n < 100 THEN 2 ELSE IF n < 1000 THEN 3 ELSE 4
value_chars(tok) ==
    IF tok.j = "number" THEN digits(tok.py)
    ELSE IF tok.py.t = "uuid" THEN 2 + 36
    ELSE IF tok.py.t = "int" THEN 2 + digits(tok.py.v)
    ELSE 2 + Len(tok.py.v)
RECURSIVE object_chars(_)
object_chars(members) ==
    IF members = <<>> THEN 2
    ELSE 2 + Len(members[1][1]) + 2 + value_chars(members[1][2]) +
         (IF Len(members) = 1 THEN 2 ELSE 2 + object_chars(Tail(members)))
RECURSIVE json_chars(_)
json_chars(text) ==
    IF text = <<>> THEN 2
    ELSE object_chars(text[1]) +
         (IF Len(text) = 1 THEN 2 ELSE 2 + json_chars(Tail(text)))

\* File contents: no file, a file that cannot be opened, text that is not
\* JSON, a JSON value that is not an array, a JSON array.
Missing == [kind |-> "missing", text |-> <<>>]
Unreadable == [kind |-> "unreadable", text |-> <<>>]
Garbage == [kind |-> "garbage", text |-> <<>>]
NonList == [kind |-> "object", text |-> <<>>]
ArrayFile(text) == [kind |-> "array", text |-> text]

\* The size of a file.  A file that is not JSON is empty, or keeps in `text`
\* the array whose size it has.
file_size(f) ==
    IF f.kind = "array" THEN json_chars(f.text)
    ELSE IF f.kind = "garbage" /\ f.text # <<>> THEN json_chars(f.text)
    ELSE 0

\* open(_MEMORY_FILE, 'w') alone: the file exists and is empty.
truncate(f) == Garbage

\* The end of the with block of _persist_memory: the buffered text is written
\* at offset 0 of what the file holds by then.  A longer text that another
\* writer left keeps its tail, and the file is not JSON.
flush(buffer, f) ==
    IF file_size(f) <= json_chars(buffer) THEN ArrayFile(buffer)
    ELSE [kind |-> "garbage", text |-> f.text]

\* open(_MEMORY_FILE, 'w') and json.dump of _persist_memory: the file left
\* and the exception raised.  open() may fail (file untouched) and json.dump
\* may fail after open() truncated the file (partial text).
write_json(labels, f, env) ==
    CASE env = "ok" -> [file |-> ArrayFile(json_dump(labels)), exc |-> NoExc]
      [] env = "open_fails" ->
            [file |-> f, exc |-> Exc("OSError", "Permission denied", Str(""))]
      [] env = "write_fails" ->
            [file |-> Garbage, exc |-> Exc("OSError", "No space left on device", Str(""))]

\* A _persist_memory that runs before the list is updated: it writes the list
\* without its newest entry.
_persist_memory_stale(labels, f, env) ==
    [file |-> write_json(IF labels = <<>> THEN labels ELSE Tail(labels), f, env).file,
     exc |-> NoExc]

\* A _persist_memory without its try: the exception of the write escapes.
_persist_memory_raises(labels, f, env) ==
    [file |-> write_json(labels, f, env).file, exc |-> write_json(labels, f, env).exc]

\* _persist_memory: the file it leaves and the exception that escapes it;
\* `except Exception: pass` drops every exception.
_persist_memory(labels, f, env) ==
    [file |-> write_json(labels, f, env).file, exc |-> NoExc]

\* open() and json.load() of _load_memory: the data read, or the exception.
read_json(f) ==
    CASE f.kind = "unreadable" ->
            [exc |-> Exc("OSError", "Permission denied", Str("")), is_list |-> FALSE, data |-> <<>>]
      [] f.kind = "garbage" ->
            [exc |-> Exc("JSONDecodeError", "Expecting value", Str("")), is_list |-> FALSE, data |-> <<>>]
      [] f.kind = "object" -> [exc |-> NoExc, is_list |-> FALSE, data |-> <<>>]
      [] f.kind = "array" -> [exc |-> NoExc, is_list |-> TRUE, data |-> json_load(f.text)]

\* A _load_memory without its try: the exception of the read escapes.
_load_memory_raises(labels, f) ==
    IF f.kind = "missing"
    THEN [labels |-> <<>>, exc |-> NoExc]
    ELSE LET r == read_json(f)
         IN  IF r.exc.type # "none" THEN [labels |-> labels, exc |-> r.exc]
             ELSE IF r.is_list THEN [labels |-> r.data, exc |-> NoExc]
             ELSE [labels |-> labels, exc |-> NoExc]

\* A _load_memory that keeps only the entries that have all six fields.
_load_memory_skips_partial(labels, f) ==
    IF f.kind = "missing"
    THEN [labels |-> <<>>, exc |-> NoExc]
    ELSE LET r == read_json(f)
         IN  IF r.exc.type # "none" THEN [labels |-> <<>>, exc |-> NoExc]
             ELSE IF r.is_list
             THEN [labels |-> SelectSeq(r.data, LAMBDA entry :
                                 \A i \in 1..Len(FieldOrder) : FieldOrder[i] \in DOMAIN entry),
                   exc |-> NoExc]
             ELSE [labels |-> labels, exc |-> NoExc]

\* _load_memory: the list it leaves in _saved_labels, which held `labels`,
\* and the exception that escapes it.
_load_memory(labels, f) ==
    IF f.kind = "missing"
    THEN [labels |-> <<>>, exc |-> NoExc]
    ELSE LET r == read_json(f)
         IN  IF r.exc.type # "none" THEN [labels |-> <<>>, exc |-> NoExc]
             ELSE IF r.is_list THEN [labels |-> r.data, exc |-> NoExc]
             ELSE [labels |-> labels, exc |-> NoExc]

\* ----------------------------------------------------------- renderer
NoImage == [made |-> FALSE, width |-> 0, height |-> 0]

\* round(mm * dpi / 25.4): the pixel size of a side, to the nearest integer
\* (mm * dpi / 25.4 is never half way between two integers).
mm_to_px_rounded(mm, dpi) == (mm * dpi * 20 + 254) \div 508

\* int(mm * dpi / 25.4): the pixel size of a side.
mm_to_px(mm, dpi) == (mm * dpi * 10) \div 254

\* A create_label_image that draws an unknown size as the default size, as
\* LABEL_SIZES.get(label_size, LABEL_SIZES['11354']) does.
create_label_image_default_size(text, label_size, font_size, align, dpi, env) ==
    IF env # "none"
    THEN [exc |-> Exc(env, "cannot draw", Str("")), image |-> NoImage]
    ELSE LET size_info == IF InCatalog(label_size) THEN LABEL_SIZES[label_size.v]
                          ELSE LABEL_SIZES[DEFAULT_LABEL_SIZE.v]
         IN  [exc |-> NoExc,
              image |-> [made |-> TRUE,
                         width |-> mm_to_px(size_info.width_mm, dpi),
                         height |-> mm_to_px(size_info.height_mm, dpi)]]

\* create_label_image: the image, or the exception raised.  `env` is the
\* exception the drawing library raises once the size is known ("none" when
\* it draws).
create_label_image(text, label_size, font_size, align, dpi, env) ==
    IF ~InCatalog(label_size)
    THEN [exc |-> Exc("ValueError", "Unknown label size: ", label_size), image |-> NoImage]
    ELSE IF env # "none"
    THEN [exc |-> Exc(env, "cannot draw", Str("")), image |-> NoImage]
    ELSE LET size_info == LABEL_SIZES[label_size.v]
         IN  [exc |-> NoExc,
              image |-> [made |-> TRUE,
                         width |-> mm_to_px(size_info.width_mm, dpi),
                         height |-> mm_to_px(size_info.height_mm, dpi)]]

\* draw.textbbox((0, 0), text, font=font) is <<left, top, right, bottom>>.
\* A _calculate_text_x_position that takes the right edge for the width.
_calculate_text_x_position_right_edge(bbox, width_px, align) ==
    LET text_width == bbox[3]
    IN  IF align = "left" THEN 20
        ELSE IF align = "center" THEN (width_px - text_width) \div 2
        ELSE width_px - text_width - 20

\* _calculate_text_x_position, given the bbox that draw.textbbox returns
_calculate_text_x_position(bbox, width_px, align) ==
    LET text_width == bbox[3] - bbox[1]
    IN  IF align = "left" THEN 20
        ELSE IF align = "center" THEN (width_px - text_width) \div 2
        ELSE width_px - text_width - 20

\* _calculate_text_y_position, given the bbox that draw.textbbox returns
_calculate_text_y_position(bbox, height_px) ==
    LET text_height == bbox[4] - bbox[2]
    IN  (height_px - text_height) \div 2

\* Lines 61-66 of create_label_image: where draw.text puts the text origin.
text_origin(image, bbox, align) ==
    [x |-> _calculate_text_x_position(bbox, image.width, align),
     y |-> _calculate_text_y_position(bbox, image.height)]

\* ---------------------------------------------------- printer service
\* _save_temp_image: NamedTemporaryFile(delete=False) creates file `name`,
\* then image.save writes it; either may fail.
_save_temp_image(name, env) ==
    CASE env = "ok" -> [exc |-> NoExc, created |-> {name}, path |-> name]
      [] env = "create_fails" ->
            [exc |-> Exc("OSError", "No space left on device", Str("")), created |-> {}, path |-> 0]
      [] env = "save_fails" ->
            [exc |-> Exc("OSError", "No space left on device", Str("")), created |-> {name}, path |-> 0]

\* _cleanup_temp_file: the files left; an OSError of os.unlink is ignored.
_cleanup_temp_file(files, path, env) == IF env = "ok" THEN files \ {path} ELSE files

\* _get_print_options
_get_print_options(label_size, copies) ==
    [media |-> LABEL_SIZES[label_size.v].cups, fit_to_page |-> "True", copies |-> str(copies)]

\* The finally clause of print_image.
finally_cleanup(files, path, env) == _cleanup_temp_file(files, path, env)

\* The connection property and printFile: the job id CUPS returns, or the
\* exception of cups.Connection() or of printFile.  Every call may have to
\* open the connection, as the first call after a start does.
submit(env) ==
    CASE env.spool = "ok" -> [exc |-> NoExc, job_id |-> env.job, called |-> TRUE]
      [] env.spool = "connect_fails" ->
            [exc |-> Exc("RuntimeError", "cannot connect", Str("")), job_id |-> 0,
             called |-> FALSE]
      [] env.spool = "print_fails" ->
            [exc |-> Exc("IPPError", "connection error", Str("")), job_id |-> 0,
             called |-> TRUE]
      [] env.spool = "print_rejects" ->
            [exc |-> Exc("ValueError", "invalid option", Str("")), job_id |-> 0,
             called |-> TRUE]

\* A print_image without its except clause: what the connection or printFile
\* raises leaves print_image as it is.
print_image_unwrapped(label_size, copies, files, name, env) ==
    IF ~InCatalog(label_size)
    THEN [exc |-> Exc("ValueError", "Unknown label size: ", label_size), job_id |-> 0,
          created |-> {}, files |-> files, called |-> FALSE, unlink |-> "none",
          spool |-> NoExc]
    ELSE LET t == _save_temp_image(name, env.tmp)
         IN  IF t.exc.type # "none"
             THEN [exc |-> t.exc, job_id |-> 0, created |-> t.created,
                   files |-> files \cup t.created, called |-> FALSE, unlink |-> "none",
                   spool |-> NoExc]
             ELSE LET j == submit(env)
                      left == finally_cleanup(files \cup t.created, t.path, env.unlink)
                  IN  [exc |-> j.exc, job_id |-> j.job_id, created |-> t.created,
                       files |-> left, called |-> j.called, unlink |-> env.unlink,
                       spool |-> j.exc]

\* A print_image that looks the size up after it saved the image.
print_image_checks_size_late(label_size, copies, files, name, env) ==
    LET t == _save_temp_image(name, env.tmp)
    IN  IF t.exc.type # "none"
        THEN [exc |-> t.exc, job_id |-> 0, created |-> t.created,
              files |-> files \cup t.created, called |-> FALSE, unlink |-> "none",
              spool |-> NoExc]
        ELSE IF ~InCatalog(label_size)
        THEN [exc |-> Exc("RuntimeError", "Failed to print: ", label_size), job_id |-> 0,
              created |-> t.created,
              files |-> finally_cleanup(files \cup t.created, t.path, env.unlink),
              called |-> FALSE, unlink |-> env.unlink, spool |-> NoExc]
        ELSE LET j == submit(env)
                 left == finally_cleanup(files \cup t.created, t.path, env.unlink)
             IN  IF j.exc.type # "none"
                 THEN [exc |-> Exc("RuntimeError", "Failed to print: ", Str(j.exc.msg)),
                       job_id |-> 0, created |-> t.created, files |-> left,
                       called |-> j.called, unlink |-> env.unlink, spool |-> j.exc]
                 ELSE [exc |-> NoExc, job_id |-> j.job_id, created |-> t.created,
                       files |-> left, called |-> j.called, unlink |-> env.unlink,
                       spool |-> NoExc]

\* print_image with `files` on disk: what it raises or returns, the files it
\* created and those left, whether printFile was called, what os.unlink did
\* in the finally clause ("none" when the clause was not reached) and what
\* the connection or printFile raised.  `name` is the name the temporary file
\* gets; env.tmp, env.spool and env.unlink are the outcomes of the file
\* system and of CUPS.
print_image(label_size, copies, files, name, env) ==
    IF ~InCatalog(label_size)
    THEN [exc |-> Exc("ValueError", "Unknown label size: ", label_size), job_id |-> 0,
          created |-> {}, files |-> files, called |-> FALSE, unlink |-> "none",
          spool |-> NoExc]
    ELSE LET t == _save_temp_image(name, env.tmp)
         IN  IF t.exc.type # "none"
             THEN [exc |-> t.exc, job_id |-> 0, created |-> t.created,
                   files |-> files \cup t.created, called |-> FALSE, unlink |-> "none",
                   spool |-> NoExc]
             ELSE LET options == _get_print_options(label_size, copies)
                      j == submit(env)
                      left == finally_cleanup(files \cup t.created, t.path, env.unlink)
                  IN  IF j.exc.type # "none"
                      THEN [exc |-> Exc("RuntimeError", "Failed to print: ", Str(j.exc.msg)),
                            job_id |-> 0, created |-> t.created, files |-> left,
                            called |-> j.called, unlink |-> env.unlink, spool |-> j.exc]
                      ELSE [exc |-> NoExc, job_id |-> j.job_id, created |-> t.created,
                            files |-> left, called |-> j.called, unlink |-> env.unlink,
                            spool |-> NoExc]

\* ------------------------------------------------------ HTTP handlers
\* jsonify({'success': ..., 'error': ...}), status
Response(status, success, prefix, exc) ==
    [status |-> status, success |-> success, prefix |-> prefix,
     error |-> [msg |-> exc.msg, arg |-> exc.arg], job_id |-> 0]

\* The except clauses of preview and print_label.
error_response(exc) ==
    CASE exc.type = "ValueError" -> Response(400, FALSE, "", exc)
      [] exc.type = "RuntimeError" -> Response(500, FALSE, "", exc)
      [] OTHER -> Response(500, FALSE, "Unexpected error: ", exc)

\* The exception of an int() conversion of a handler.
int_exc(raw) == Exc("ValueError", "invalid literal for int() with base 10: ", raw)

\* What a print_image call that was not made reports.
NoPrint(files) ==
    [exc |-> NoExc, job_id |-> 0, created |-> {}, files |-> files, called |-> FALSE,
     unlink |-> "none", spool |-> NoExc]

\* What a create_label_image call that was not made reports.
NoRender == [exc |-> NoExc, image |-> NoImage]

\* A handler outcome that leaves the store, the disk and the spooler alone.
Untouched(resp, labels, f, files) ==
    [resp |-> resp, labels |-> labels, file |-> f,
     rendered |-> FALSE, render |-> NoRender,
     printed |-> FALSE, print |-> NoPrint(files),
     saved |-> FALSE, persist |-> "none"]

\* preview: POST /preview with JSON body `data`.
preview(labels, f, files, data, env) ==
    LET text == get(data, "text", Str("Sample Text"))
        label_size == get(data, "label_size", DEFAULT_LABEL_SIZE)
        raw_font == get(data, "font_size", Num(DEFAULT_FONT_SIZE))
        align == get(data, "align", Str("center"))
        none == Untouched(Response(200, TRUE, "", NoExc), labels, f, files)
    IN  IF ~IntOk(raw_font)
        THEN [none EXCEPT !.resp = error_response(int_exc(raw_font))]
        ELSE LET r == create_label_image(text, label_size, int(raw_font), align,
                                         DEFAULT_DPI, env.render)
             IN  IF r.exc.type # "none"
                 THEN [none EXCEPT !.resp = error_response(r.exc),
                                   !.rendered = TRUE, !.render = r]
                 ELSE [none EXCEPT !.rendered = TRUE, !.render = r]

\* A print_label that saves the label before it prints it.
print_and_save_saves_first(sofar, labels, f, files, data, label_size, copies, name, id, env) ==
    LET new == _save_label(labels, data, id)
        w == _persist_memory(new, f, env.persist)
        p == print_image(label_size, copies, files, name, env)
        done == [sofar EXCEPT !.resp.job_id = p.job_id,
                              !.labels = new, !.file = w.file,
                              !.printed = TRUE, !.print = p,
                              !.saved = TRUE, !.persist = env.persist]
    IN  IF p.exc.type # "none"
        THEN [done EXCEPT !.resp = error_response(p.exc)]
        ELSE done

\* Lines 146-155 of print_label, after the image was made: print_image, then
\* _save_label (which persists), then the response.  `sofar` is the outcome
\* up to the rendering.
print_and_save(sofar, labels, f, files, data, label_size, copies, name, id, env) ==
    LET p == print_image(label_size, copies, files, name, env)
    IN  IF p.exc.type # "none"
        THEN [sofar EXCEPT !.resp = error_response(p.exc), !.printed = TRUE, !.print = p]
        ELSE LET new == _save_label(labels, data, id)
                 w == _persist_memory(new, f, env.persist)
                 done == [sofar EXCEPT !.resp.job_id = p.job_id,
                                       !.labels = new, !.file = w.file,
                                       !.printed = TRUE, !.print = p,
                                       !.saved = TRUE, !.persist = env.persist]
             IN  IF w.exc.type # "none"
                 THEN [done EXCEPT !.resp = error_response(w.exc)]
                 ELSE done

\* print_label: POST /print with JSON body `data`; `name` is the name the
\* temporary file gets and `id` the next uuid4.
print_label(labels, f, files, data, name, id, env) ==
    LET text == get(data, "text", Str(""))
        label_size == get(data, "label_size", DEFAULT_LABEL_SIZE)
        raw_font == get(data, "font_size", Num(DEFAULT_FONT_SIZE))
        align == get(data, "align", Str("center"))
        raw_copies == get(data, "copies", Num(1))
        none == Untouched(Response(200, TRUE, "", NoExc), labels, f, files)
    IN  IF ~IntOk(raw_font)
        THEN [none EXCEPT !.resp = error_response(int_exc(raw_font))]
        ELSE IF ~IntOk(raw_copies)
        THEN [none EXCEPT !.resp = error_response(int_exc(raw_copies))]
        ELSE IF text = Str("")
        THEN [none EXCEPT !.resp = Response(400, FALSE, "",
                                            Exc("", "No text provided", Str("")))]
        ELSE LET r == create_label_image(text, label_size, int(raw_font), align,
                                         DEFAULT_DPI, env.render)
                 sofar == [none EXCEPT !.rendered = TRUE, !.render = r]
             IN  IF r.exc.type # "none"
                 THEN [sofar EXCEPT !.resp = error_response(r.exc)]
                 ELSE print_and_save(sofar, labels, f, files, data, label_size,
                                     int(raw_copies), name, id, env)

\* A JSON list as a Python value.
List(xs) == [t |-> "list", v |-> xs]

\* [str(i) for i in ids]
str_all(ids) == [i \in 1..Len(ids) |-> str(ids[i])]

\* memory: DELETE /memory with JSON body `data`.
memory_delete(labels, f, files, data, env) ==
    LET ids == get(data, "ids", List(<<>>))
        none == Untouched(Response(200, TRUE, "", NoExc), labels, f, files)
    IN  IF ids.t # "list"
        THEN [none EXCEPT !.resp = Response(400, FALSE, "",
                                            Exc("", "ids must be a list", Str("")))]
        ELSE LET new == _delete_labels(labels, str_all(ids.v))
                 w == _persist_memory(new, f, env.persist)
                 done == [none EXCEPT !.labels = new, !.file = w.file,
                                      !.saved = TRUE, !.persist = env.persist]
             IN  IF w.exc.type # "none"
                 THEN [done EXCEPT !.resp = error_response(w.exc)]
                 ELSE done

\* ------------------------------------------------------------ inputs
JS(s) == [j |-> "string", py |-> Str(s)]
JN(n) == [j |-> "number", py |-> n]

\* The texts of the JSON arrays a persistence file may hold at the first
\* start: an entry as the program writes it, an entry with only an id and a
\* text, whose dedup key is that of the first.
TextA == << <<"id", JS("s1")>>, <<"text", JS("A")>>, <<"label_size", JS("11354")>>,
            <<"font_size", JN(40)>>, <<"align", JS("center")>>, <<"copies", JN(1)>> >>
TextA2 == << <<"id", JS("7")>>, <<"text", JS("A")>> >>

SeedFiles ==
    { Missing, Unreadable, Garbage, NonList,
      ArrayFile(<<>>), ArrayFile(<<TextA>>), ArrayFile(<<TextA, TextA2>>) }

\* The JSON bodies of POST /print and POST /preview: two bodies with one
\* dedup key (one spells the defaults out), a body with another key and a
\* decimal string, and bodies the handlers reject.
PayloadA == ("text" :> Str("A")) @@ ("label_size" :> Str("11354")) @@
            ("font_size" :> Num(40)) @@ ("align" :> Str("center")) @@ ("copies" :> Num(1))
PayloadADefaults == ("text" :> Str("A"))
PayloadB == ("text" :> Str("B")) @@ ("label_size" :> Str("30252")) @@
            ("font_size" :> Str("12")) @@ ("align" :> Str("left")) @@ ("copies" :> Num(2))
ValidPayloads == {PayloadA, PayloadADefaults, PayloadB}
PayloadBadSize == ("text" :> Str("A")) @@ ("label_size" :> Str("BAD"))
BadPayloads ==
    { ("text" :> Str("")) @@ ("label_size" :> Str("BAD")) @@ ("font_size" :> Num(12)) @@
          ("align" :> Str("right")),
      PayloadBadSize,
      ("text" :> Str("B")) @@ ("font_size" :> Str("abc")) }

\* The ids a DELETE /memory body may name: generated ids, ids of the first
\* file, and an id no entry has.
IdPool == {Uuid(n) : n \in 1..MaxUuid} \cup {Str("s1"), Num(7), Str("zz")}

\* The JSON bodies of DELETE /memory.
DeleteBodies ==
    { EmptyDict, ("ids" :> Str("all")) } \cup
    { ("ids" :> List(<<a>>)) : a \in IdPool } \cup
    { ("ids" :> List(<<Uuid(n), Uuid(n + 1)>>)) : n \in 1..(MaxUuid - 1) } \cup
    { ("ids" :> List(<<Str("s1"), Str("zz")>>)) }

\* What the drawing library, the file system and CUPS do during a call.
AllOk == [render |-> "none", tmp |-> "ok", spool |-> "ok", unlink |-> "ok",
          persist |-> "ok", job |-> 123]
RenderFails == {[AllOk EXCEPT !.render = e] : e \in {"ValueError", "MemoryError"}}
PersistFails == {[AllOk EXCEPT !.persist = e] : e \in {"open_fails", "write_fails"}}
PrintFails ==
    {[AllOk EXCEPT !.tmp = e] : e \in {"create_fails", "save_fails"}} \cup
    {[AllOk EXCEPT !.spool = e] : e \in {"connect_fails", "print_fails", "print_rejects"}} \cup
    {[AllOk EXCEPT !.spool = "print_fails", !.unlink = "fails"],
     [AllOk EXCEPT !.unlink = "fails"]}

\* The requests with what happens during each: every body on a good day, and
\* every failure of the environment during a request with PayloadA (or with an
\* unknown size, or with a body that names a generated id or no id of the list).
PreviewInputs ==
    {<<d, AllOk>> : d \in ValidPayloads \cup BadPayloads} \cup
    {<<d, e>> : d \in {PayloadA, PayloadBadSize}, e \in RenderFails}
PrintInputs ==
    {<<d, e>> : d \in ValidPayloads, e \in {AllOk} \cup PersistFails} \cup
    {<<d, AllOk>> : d \in BadPayloads} \cup
    {<<PayloadA, e>> : e \in RenderFails \cup PrintFails} \cup
    {<<PayloadBadSize, e>> : e \in RenderFails}
DeleteInputs ==
    {<<d, AllOk>> : d \in DeleteBodies} \cup
    {<<("ids" :> List(<<a>>)), e>> : a \in {Uuid(1), Str("zz")}, e \in PersistFails}

\* mkstemp: a name no file on disk has.
mkstemp(files) == CHOOSE n \in 1..(Cardinality(files) + 1) : n \notin files

\* Whether the entries of a list have pairwise different dedup keys.
UniqueKeys(labels) ==
    \A i, j \in 1..Len(labels) : _label_key(labels[i]) = _label_key(labels[j]) => i = j

\* What the history keeps of a handler outcome: all but the copies of the
\* list and of the file.
Seen(out) ==
    [resp |-> out.resp, rendered |-> out.rendered, render |-> out.render,
     printed |-> out.printed, print |-> out.print, saved |-> out.saved,
     persist |-> out.persist]

\* The arguments of direct calls of the library: size codes, resolutions,
\* alignments, and what draw.textbbox measures for the text in the font:
\* no text, a word, a word with odd sides and offsets, a line wider than
\* the widest label, a line taller than the tallest.
SizeCodes == DOMAIN LABEL_SIZES \cup {"BAD"}
Dpis == {72, 96, 150, 203, 300, 600}
Aligns == {"left", "center", "right"}
BBoxes == {<<0, 0, 0, 0>>, <<0, 9, 95, 38>>, <<1, 8, 120, 39>>, <<0, 9, 2200, 38>>,
           <<0, 30, 60, 2500>>}
CopiesArgs == {1, 2}

\* The threads that serve requests, and a thread that is in no store call.
Threads == {"t1", "t2"}
Idle == [pc |-> "idle", op |-> "none", arg |-> EmptyDict, filtered |-> <<>>,
         entry |-> EmptyDict, buffer |-> <<>>, id |-> 0]

\* ------------------------------------------------------------- actions
\* The module body of web_app.py: lines 20-22 and the _load_memory() call,
\* with file `f` on disk; `before` is what the previous run of the process
\* left (nothing at the first start).
Started(f, files, before) ==
    LET m == _load_memory(<<>>, f)
    IN  [labels |-> m.labels,
         last |-> [op |-> "start", data |-> EmptyDict, pre |-> before.labels,
                   presync |-> before.sync, file_kept |-> TRUE, exc |-> m.exc,
                   out |-> Seen(Untouched(Response(0, TRUE, "", NoExc), m.labels, f,
                                          files))]]

Init ==
    /\ file \in SeedFiles
    /\ tmpfiles = {}
    /\ nuuid = 0
    /\ sync = "start"
    /\ LET s == Started(file, {}, [labels |-> <<>>, sync |-> "start"])
       IN  /\ _saved_labels = s.labels
           /\ seed_unique = UniqueKeys(s.labels)
           /\ last = s.last
    /\ removed = {}
    /\ threads = [t \in Threads |-> Idle]

\* The process is stopped and started again.
Restart ==
    /\ LET s == Started(file, tmpfiles, [labels |-> _saved_labels, sync |-> sync])
       IN  /\ _saved_labels' = s.labels
           /\ last' = s.last
    /\ sync' = "start"
    /\ UNCHANGED <<file, tmpfiles, nuuid, seed_unique, removed, threads>>

\* What a handler call leaves in the state.
Handled(op, data, out) ==
    /\ nuuid + (IF out.saved /\ op = "print" THEN 1 ELSE 0) <= MaxUuid
    /\ Cardinality(out.print.files) <= MaxLeaks
    /\ _saved_labels' = out.labels
    /\ file' = out.file
    /\ tmpfiles' = out.print.files
    /\ nuuid' = nuuid + (IF out.saved /\ op = "print" THEN 1 ELSE 0)
    /\ sync' = IF out.persist = "none" THEN sync
               ELSE IF out.persist = "ok" THEN "ok" ELSE "failed"
    /\ seed_unique' = seed_unique
    /\ last' = [op |-> op, data |-> data, pre |-> _saved_labels, presync |-> "",
                file_kept |-> (out.file = file), exc |-> NoExc, out |-> Seen(out)]
    /\ UNCHANGED <<removed, threads>>

\* POST /preview
PostPreview ==
    \E in \in PreviewInputs :
        \E out \in {preview(_saved_labels, file, tmpfiles, in[1], in[2])} :
            Handled("preview", in[1], out)

\* POST /print
PostPrint ==
    \E in \in PrintInputs :
        \E out \in {print_label(_saved_labels, file, tmpfiles, in[1], mkstemp(tmpfiles),
                                 Uuid(nuuid + 1), in[2])} :
            Handled("print", in[1], out)

\* DELETE /memory
DeleteMemory ==
    \E in \in DeleteInputs :
        \E out \in {memory_delete(_saved_labels, file, tmpfiles, in[1], in[2])} :
            Handled("delete", in[1], out)

Next == Restart \/ PostPreview \/ PostPrint \/ DeleteMemory

Spec == Init /\ [][Next]_vars

\* ------------------------------------------------ direct library calls
\* No request was served: the store is empty and there is no file.
InitLib ==
    /\ _saved_labels = <<>>
    /\ file = Missing
    /\ tmpfiles = {}
    /\ nuuid = 0
    /\ sync = "start"
    /\ seed_unique = TRUE
    /\ last = [op |-> "none"]
    /\ removed = {}
    /\ threads = [t \in Threads |-> Idle]

\* create_label_image(text, label_size, font_size, align, dpi), where the text
\* measures `bbox` in the font.
RenderCall ==
    \E code \in SizeCodes, dpi \in Dpis, bbox \in BBoxes, align \in Aligns,
       env \in {"none", "MemoryError"} :
        LET r == create_label_image(Str("text"), Str(code), DEFAULT_FONT_SIZE, align, dpi,
                                    env)
        IN  /\ last' = [op |-> "create_label_image", label_size |-> code, dpi |-> dpi,
                        bbox |-> bbox, align |-> align, exc |-> r.exc, image |-> r.image,
                        origin |-> IF r.image.made THEN text_origin(r.image, bbox, align)
                                   ELSE [x |-> 0, y |-> 0]]
            /\ UNCHANGED <<_saved_labels, file, tmpfiles, nuuid, sync, seed_unique,
                           removed, threads>>

\* PrinterService.print_image(image, label_size, copies)
PrintImageCall ==
    \E code \in SizeCodes, copies \in CopiesArgs, env \in {AllOk} \cup PrintFails :
        LET r == print_image(Str(code), Num(copies), tmpfiles, mkstemp(tmpfiles), env)
        IN  /\ Cardinality(r.files) <= MaxLeaks
            /\ tmpfiles' = r.files
            /\ last' = [op |-> "print_image", label_size |-> code, copies |-> copies,
                        files_before |-> tmpfiles, out |-> r]
            /\ UNCHANGED <<_saved_labels, file, nuuid, sync, seed_unique, removed,
                           threads>>

NextLib == RenderCall \/ PrintImageCall

SpecLib == InitLib /\ [][NextLib]_vars

\* ------------------------------------------------------------- claims
\* The positions of the entries of a list that have dedup key `key`.
WithKey(labels, key) == {i \in 1..Len(labels) : _label_key(labels[i]) = key}

\* The ids of the entries of a list.
IdsOf(labels) == {labels[i]["id"] : i \in 1..Len(labels)}

\* The latest call was a POST /print that reached _save_label.
SavedNow == last.op = "print" /\ last.out.saved

\* C1 as stated: in every reachable state the list holds at most one entry per
\* (text, label_size, font_size, align, copies) tuple.
C1_OneEntryPerKey == UniqueKeys(_saved_labels)

\* C1, amended: when the list loaded at the first process start holds at most
\* one entry per dedup key, the list holds at most one entry per dedup key in
\* every state reached by saves, deletes and restarts.
C1_OneEntryPerKeyFromUniqueStart == seed_unique => UniqueKeys(_saved_labels)

\* C1 witness: a save of a key the list already held, beside another entry.
C1_Witness ==
    /\ seed_unique
    /\ SavedNow
    /\ WithKey(last.pre, _label_key(last.data)) # {}
    /\ Len(_saved_labels) = 2

\* C2: after a save whose key an earlier save (or the file) had put in the
\* list, the list holds exactly one entry with that key, at position 1, and
\* its id is none of the ids the list held before.
C2_SecondSaveReplaces ==
    SavedNow =>
        LET key == _label_key(last.data)
        IN  /\ WithKey(_saved_labels, key) = {1}
            /\ _saved_labels[1]["id"] \notin IdsOf(last.pre)

\* C2 witness: the second save of a key, with a save of another key between
\* the two.
C2_Witness ==
    /\ SavedNow
    /\ Len(last.pre) = 2
    /\ WithKey(last.pre, _label_key(last.data)) = {2}
    /\ last.pre[2]["id"] = Uuid(1)
    /\ last.pre[1]["id"] = Uuid(2)

\* The ids a DELETE /memory body hands to _delete_labels.
GivenIds == {str(x) : x \in set(last.data["ids"].v)}

\* The positions of `labels` whose id is not in `ids`, and the n-th of them.
KeptAt(labels, ids) == {i \in 1..Len(labels) : labels[i]["id"] \notin ids}
NthKept(labels, ids, n) ==
    CHOOSE i \in KeptAt(labels, ids) :
        Cardinality({j \in KeptAt(labels, ids) : j < i}) = n - 1

\* The latest call was a DELETE /memory that reached _delete_labels with a
\* list of ids in its body.
DeletedNow == last.op = "delete" /\ last.out.saved /\ "ids" \in DOMAIN last.data

\* C3: a delete leaves exactly the entries whose id is not in the given set,
\* in their order; it answers 200 whether or not the ids are in the list, and
\* a delete of absent ids only leaves the list as it was.
C3_DeleteRemovesExactly ==
    DeletedNow =>
        /\ Len(_saved_labels) = Cardinality(KeptAt(last.pre, GivenIds))
        /\ \A n \in 1..Len(_saved_labels) :
              _saved_labels[n] = last.pre[NthKept(last.pre, GivenIds, n)]
        /\ last.out.resp.status = 200
        /\ (GivenIds \cap IdsOf(last.pre) = {} => _saved_labels = last.pre)

\* C3 witness: a delete of a present and an absent id from a list of two.
C3_Witness ==
    /\ DeletedNow
    /\ Len(last.pre) = 2
    /\ Len(_saved_labels) = 1
    /\ Cardinality(GivenIds \cap IdsOf(last.pre)) = 1
    /\ Cardinality(GivenIds \ IdsOf(last.pre)) = 1
    /\ _saved_labels[1] = last.pre[2]

\* The latest call was a save or a delete, which wrote the file.
MutatedNow == last.op \in {"print", "delete"} /\ last.out.saved

\* The JSON text `text` is an array whose i-th object has the keys of the i-th
\* entry of `labels`, each with the entry's value: a number for an int, the
\* string itself otherwise.
Holds(text, labels) ==
    /\ Len(text) = Len(labels)
    /\ \A i \in 1..Len(text) :
          /\ {text[i][k][1] : k \in 1..Len(text[i])} = DOMAIN labels[i]
          /\ \A k \in 1..Len(text[i]) :
                LET key == text[i][k][1]
                    tok == text[i][k][2]
                IN  IF tok.j = "number"
                    THEN labels[i][key] = [t |-> "int", v |-> tok.py]
                    ELSE tok.py.t # "int" /\ labels[i][key] = tok.py

\* C4: after a save or a delete whose file write succeeded, the file holds a
\* JSON array equal to the in-memory list, entry for entry and in order.
C4_FileEqualsList ==
    (MutatedNow /\ last.out.persist = "ok") =>
        file.kind = "array" /\ Holds(file.text, _saved_labels)

\* C4 witness: a successful write of a list of two entries by a save.
C4_Witness ==
    /\ SavedNow
    /\ last.out.persist = "ok"
    /\ Len(_saved_labels) = 2
    /\ ~last.file_kept

\* C5: when the file write of a save or a delete fails, the handler still
\* answers 200 with success, and the list holds the result of the mutation:
\* the saved entry first and alone with its key, or no entry with a given id.
C5_PersistenceFailSoft ==
    (MutatedNow /\ last.out.persist \in {"open_fails", "write_fails"}) =>
        /\ last.out.resp.status = 200
        /\ last.out.resp.success
        /\ last.op = "print" =>
              /\ WithKey(_saved_labels, _label_key(last.data)) = {1}
              /\ _saved_labels[1]["id"] \notin IdsOf(last.pre)
              /\ Len(_saved_labels) =
                    1 + Len(last.pre) - Cardinality(WithKey(last.pre, _label_key(last.data)))
        /\ last.op = "delete" =>
              /\ IdsOf(_saved_labels) \cap GivenIds = {}
              /\ Len(_saved_labels) = Cardinality(KeptAt(last.pre, GivenIds))

\* C5 witness: a save whose write failed half way: the file is no longer
\* JSON, the list has the new entry.
C5_Witness ==
    /\ SavedNow
    /\ last.out.persist = "write_fails"
    /\ file.kind = "garbage"
    /\ Len(_saved_labels) = 2
    /\ last.out.resp.status = 200

\* The latest event was a process start.
StartedNow == last.op = "start"

\* C6: after a process start that found no file, a file it could not open or
\* parse, or a JSON value that is not a list, the store is empty and no
\* exception left _load_memory.
C6_BadFileGivesEmptyStore ==
    (StartedNow /\ file.kind \in {"missing", "unreadable", "garbage", "object"}) =>
        _saved_labels = <<>> /\ last.exc.type = "none"

\* C6 witness: a restart that finds a half-written file, after a run that held
\* entries in memory.
C6_Witness ==
    /\ StartedNow
    /\ file.kind = "garbage"
    /\ Len(last.pre) >= 1
    /\ last.presync = "failed"

\* C7: a process start that finds a JSON array yields a list equal to it,
\* element for element and in order; and a restart after a run whose latest
\* file write succeeded yields the list the run held.
C7_RestartRoundTrip ==
    StartedNow =>
        /\ file.kind = "array" => Holds(file.text, _saved_labels)
        /\ last.presync = "ok" => _saved_labels = last.pre

\* C7 witness: a restart that restores a list of two entries after
\* successfully persisted saves.
C7_Witness ==
    /\ StartedNow
    /\ last.presync = "ok"
    /\ Len(_saved_labels) = 2
    /\ _saved_labels[1]["id"] = Uuid(2)

\* The latest call was a POST /print.
PrintedNow == last.op = "print"

\* print_image returned a job id to the latest call.
JobReturned ==
    last.out.printed /\ last.out.print.exc.type = "none" /\ last.out.print.job_id # 0

\* C8: POST /print changes the list exactly when print_image returned a job
\* id; otherwise the list and the file are as before; and printFile is not
\* called when the text is empty or no image was made.
C8_SaveOnlyAfterJob ==
    PrintedNow =>
        /\ (_saved_labels # last.pre) <=> JobReturned
        /\ JobReturned =>
              /\ WithKey(_saved_labels, _label_key(last.data)) = {1}
              /\ last.out.resp.status = 200
        /\ ~JobReturned => (_saved_labels = last.pre /\ last.file_kept)
        /\ (get(last.data, "text", [t |-> "str", v |-> ""]).v = ""
            \/ ~last.out.render.image.made) => ~last.out.print.called

\* C8 witness: a POST /print that printFile failed, with a list of two entries
\* left as it was.
C8_Witness ==
    /\ PrintedNow
    /\ last.out.print.called
    /\ last.out.print.exc.type = "RuntimeError"
    /\ last.out.resp.status = 500
    /\ Len(_saved_labels) = 2

\* C9: after print_image returned a job id or raised, no temporary file that
\* the call created is left on disk, a failure while saving the image to the
\* file included.  The case where os.unlink itself fails is left out: the
\* statement is about the exit paths of print_image, not about a file system
\* that refuses the removal.
C9_TempFileRemoved ==
    (PrintedNow /\ last.out.printed /\ last.out.print.unlink # "fails") =>
        last.out.print.created \cap tmpfiles = {}

\* The latest call rendered (create_label_image was called) with a size code
\* that is not in the catalog.
RenderedUnknownSize ==
    /\ last.op \in {"preview", "print"}
    /\ last.out.rendered
    /\ get(last.data, "label_size", DEFAULT_LABEL_SIZE).v \notin DOMAIN LABEL_SIZES

\* C10: rendering with a size code that is not in the catalog raises
\* ValueError "Unknown label size: <code>" and makes no image, whatever the
\* text, the font size, the alignment and the drawing library do, and
\* /preview and /print answer 400 with that message.
C10_UnknownSizeRejected ==
    RenderedUnknownSize =>
        LET code == get(last.data, "label_size", DEFAULT_LABEL_SIZE)
        IN  /\ last.out.render.exc =
                  [type |-> "ValueError", msg |-> "Unknown label size: ", arg |-> code]
            /\ ~last.out.render.image.made
            /\ last.out.resp.status = 400
            /\ ~last.out.resp.success
            /\ last.out.resp.prefix = ""
            /\ last.out.resp.error = [msg |-> "Unknown label size: ", arg |-> code]
            /\ ~last.out.printed

\* C10 witness: a POST /preview of an empty text with an unknown size, a font
\* size of 12 and right alignment, answered 400.
C10_Witness ==
    /\ RenderedUnknownSize
    /\ last.op = "preview"
    /\ last.data["text"].v = ""
    /\ last.data["align"].v = "right"
    /\ last.out.resp.status = 400

\* The latest library call was a create_label_image that returned an image.
RenderedNow == last.op = "create_label_image" /\ last.image.made

\* C11 as stated: the sides of the image are the sides in mm times dpi / 25.4
\* rounded to the nearest integer; '11354' at 300 dpi is 673 x 378.
C11_RoundedPixels ==
    RenderedNow =>
        LET mm == LABEL_SIZES[last.label_size]
        IN  /\ 508 * last.image.width - 254 <= 20 * mm.width_mm * last.dpi
            /\ 20 * mm.width_mm * last.dpi < 508 * last.image.width + 254
            /\ 508 * last.image.height - 254 <= 20 * mm.height_mm * last.dpi
            /\ 20 * mm.height_mm * last.dpi < 508 * last.image.height + 254
            /\ (last.label_size = "11354" /\ last.dpi = 300) =>
                  (last.image.width = 673 /\ last.image.height = 378)

\* C11 amended: the sides of the image are the sides in mm times dpi / 25.4
\* with the fraction dropped; '11354' at 300 dpi is 673 x 377.
C11_TruncatedPixels ==
    RenderedNow =>
        LET mm == LABEL_SIZES[last.label_size]
        IN  /\ 254 * last.image.width <= 10 * mm.width_mm * last.dpi
            /\ 10 * mm.width_mm * last.dpi < 254 * (last.image.width + 1)
            /\ 254 * last.image.height <= 10 * mm.height_mm * last.dpi
            /\ 10 * mm.height_mm * last.dpi < 254 * (last.image.height + 1)
            /\ (last.label_size = "11354" /\ last.dpi = 300) =>
                  (last.image.width = 673 /\ last.image.height = 377)

\* C11 witness: '11354' rendered at 300 dpi, 377 pixels high.
C11_Witness ==
    /\ RenderedNow
    /\ last.label_size = "11354"
    /\ last.dpi = 300
    /\ last.image.height = 377

\* The width and the height of the text of the latest rendering: the sides of
\* the box that draw.textbbox measured.
TextWidth == last.bbox[3] - last.bbox[1]
TextHeight == last.bbox[4] - last.bbox[2]

\* C12 as stated: x is 20 for left, width - text_width - 20 for right and
\* exactly (width - text_width) / 2 for center; y is exactly
\* (height - text_height) / 2 for every alignment.
C12_ExactHalf ==
    RenderedNow =>
        /\ last.align = "left" => last.origin.x = 20
        /\ last.align = "right" => last.origin.x = last.image.width - TextWidth - 20
        /\ last.align = "center" => 2 * last.origin.x = last.image.width - TextWidth
        /\ 2 * last.origin.y = last.image.height - TextHeight

\* C12 amended: x is 20 for left, width - text_width - 20 for right and
\* (width - text_width) / 2 rounded down to an integer for center; y is
\* (height - text_height) / 2 rounded down to an integer, whatever the
\* alignment.
C12_FlooredHalf ==
    RenderedNow =>
        /\ last.align = "left" => last.origin.x = 20
        /\ last.align = "right" => last.origin.x = last.image.width - TextWidth - 20
        /\ last.align = "center" =>
              /\ 2 * last.origin.x <= last.image.width - TextWidth
              /\ last.image.width - TextWidth <= 2 * last.origin.x + 1
        /\ 2 * last.origin.y <= last.image.height - TextHeight
        /\ last.image.height - TextHeight <= 2 * last.origin.y + 1

\* C12 witness: a centered text whose box has a left offset, with odd
\* differences between the sides of the image and the sides of the text.
C12_Witness ==
    /\ RenderedNow
    /\ last.align = "center"
    /\ last.bbox[1] # 0
    /\ (last.image.width - TextWidth) % 2 = 1
    /\ (last.image.height - TextHeight) % 2 = 1

SpoolerFailedNow == PrintedNow /\ last.out.printed /\ last.out.print.spool.type # "none"

\* C14: whatever the connection or printFile raises, print_image raises
\* RuntimeError "Failed to print: <its message>", and POST /print answers 500
\* with that message, not 400 and not success.
C14_SpoolerFailureIs500 ==
    SpoolerFailedNow =>
        LET message == [t |-> "str", v |-> last.out.print.spool.msg]
        IN  /\ last.out.print.exc =
                  [type |-> "RuntimeError", msg |-> "Failed to print: ", arg |-> message]
            /\ last.out.resp.status = 500
            /\ ~last.out.resp.success
            /\ last.out.resp.prefix = ""
            /\ last.out.resp.error = [msg |-> "Failed to print: ", arg |-> message]
            /\ ~last.out.saved

\* C14 witness: printFile raised a ValueError and POST /print answered 500.
C14_Witness ==
    /\ SpoolerFailedNow
    /\ last.out.print.called
    /\ last.out.print.spool.type = "ValueError"
    /\ last.out.resp.status = 500

\* The latest library call was print_image with a size that is not in the
\* catalog.
PrintImageUnknownSize ==
    last.op = "print_image" /\ last.label_size \notin DOMAIN LABEL_SIZES

\* C16: print_image with a size code that is not in the catalog raises
\* ValueError "Unknown label size: <code>" without having created a temporary
\* file and without a call of printFile.
C16_UnknownSizeBeforeSideEffects ==
    PrintImageUnknownSize =>
        /\ last.out.exc = [type |-> "ValueError", msg |-> "Unknown label size: ",
                           arg |-> [t |-> "str", v |-> last.label_size]]
        /\ last.out.created = {}
        /\ tmpfiles = last.files_before
        /\ ~last.out.called
        /\ last.out.spool.type = "none"
        /\ last.out.unlink = "none"
        /\ last.out.job_id = 0

\* C16 witness: print_image('BAD') raised ValueError on a disk that held a
\* file left by an earlier call.
C16_Witness ==
    /\ PrintImageUnknownSize
    /\ last.out.exc.type = "ValueError"
    /\ last.files_before # {}
    /\ tmpfiles = last.files_before

\* The integer a request field denotes: the number itself, or the number a
\* decimal string spells.
NumberOf(x) == IF x.t = "int" THEN x.v ELSE Digits[x.v]

\* The value of field `k` of the latest request, or `default` without it.
Sent(k, default) == IF k \in DOMAIN last.data THEN last.data[k] ELSE default

\* The n-th smallest element of a set of positions.
NthOf(S, n) == CHOOSE i \in S : Cardinality({j \in S : j < i}) = n - 1

\* The positions of the entries of the former list whose key is not that of
\* the latest request.
OtherKeys == (1..Len(last.pre)) \ WithKey(last.pre, _label_key(last.data))

\* C17: a save puts first a new entry with the request's text, label_size,
\* font_size, align and copies, '' / '11354' / 40 / 'center' / 1 standing in
\* for a missing field; the rest of the list is the former list without the
\* entries of the same key, unmodified and in the former order.
C17_SaveInsertsFirst ==
    SavedNow =>
        LET e == _saved_labels[1]
        IN  /\ DOMAIN e = {"id", "text", "label_size", "font_size", "align", "copies"}
            /\ e["text"] = Sent("text", [t |-> "str", v |-> ""])
            /\ e["label_size"] = Sent("label_size", [t |-> "str", v |-> "11354"])
            /\ e["font_size"] =
                  [t |-> "int", v |-> NumberOf(Sent("font_size", [t |-> "int", v |-> 40]))]
            /\ e["align"] = Sent("align", [t |-> "str", v |-> "center"])
            /\ e["copies"] =
                  [t |-> "int", v |-> NumberOf(Sent("copies", [t |-> "int", v |-> 1]))]
            /\ Len(_saved_labels) = 1 + Cardinality(OtherKeys)
            /\ \A n \in 1..Cardinality(OtherKeys) :
                  _saved_labels[n + 1] = last.pre[NthOf(OtherKeys, n)]

\* C17 witness: a save of a request that has a text only, into a list whose
\* second entry has the key of the request: the former first entry is now
\* second.
C17_Witness ==
    /\ SavedNow
    /\ DOMAIN last.data = {"text"}
    /\ Len(last.pre) = 2
    /\ WithKey(last.pre, _label_key(last.data)) = {2}
    /\ Len(_saved_labels) = 2
    /\ _saved_labels[2] = last.pre[1]

\* ------------------------------------------------- direct store calls
\* The store is empty and there is no file.
InitStore ==
    /\ _saved_labels = <<>>
    /\ file = Missing
    /\ tmpfiles = {}
    /\ nuuid = 0
    /\ sync = "start"
    /\ seed_unique = TRUE
    /\ last = [op |-> "none"]
    /\ removed = {}
    /\ threads = [t \in Threads |-> Idle]

\* What a store call leaves: the list, the file, and in the history the ids
\* that left the list.
Stored(op, arg, new, env) ==
    /\ _saved_labels' = new
    /\ file' = _persist_memory(new, file, env).file
    /\ sync' = IF env = "ok" THEN "ok" ELSE "failed"
    /\ removed' = removed \cup (IdsOf(_saved_labels) \ IdsOf(new))
    /\ last' = [op |-> op, arg |-> arg, pre |-> _saved_labels]
    /\ UNCHANGED <<tmpfiles, seed_unique, threads>>

\* _save_label(payload)
SaveCall ==
    \E payload \in ValidPayloads, env \in {"ok", "open_fails", "write_fails"} :
        /\ nuuid < MaxUuid
        /\ nuuid' = nuuid + 1
        /\ Stored("save", payload, _save_label(_saved_labels, payload, Uuid(nuuid + 1)), env)

\* _delete_labels(ids)
DeleteCall ==
    \E body \in DeleteBodies, env \in {"ok", "open_fails", "write_fails"} :
        /\ "ids" \in DOMAIN body
        /\ body["ids"].t = "list"
        /\ nuuid' = nuuid
        /\ Stored("delete", body["ids"],
                  _delete_labels(_saved_labels, str_all(body["ids"].v)), env)

NextStore == SaveCall \/ DeleteCall

SpecStore == InitStore /\ [][NextStore]_vars

\* C18: from an empty store, after any sequence of saves and deletes, the ids
\* of the entries of the list are pairwise different, and no id that left
\* the list (deleted, or replaced by a save of the same key) is in it.
C18_IdsDistinctNeverBack ==
    /\ \A i, j \in 1..Len(_saved_labels) :
          _saved_labels[i]["id"] = _saved_labels[j]["id"] => i = j
    /\ IdsOf(_saved_labels) \cap removed = {}

\* C18 witness: a save after one id was replaced and another deleted.
C18_Witness ==
    /\ last.op = "save"
    /\ Cardinality(removed) = 2
    /\ Len(last.pre) = 0
    /\ Len(_saved_labels) = 1

\* ------------------------------------------- concurrent store calls
\* Two request threads inside _save_label and _delete_labels.  A thread may
\* be suspended between any two steps: the list comprehension, the store
\* into the global, the insert, open(), json.dump into the file buffer, and
\* the end of the with block, which writes the buffer.

\* The lists that saves of PayloadA and then of PayloadB leave.
SavedBefore(n) ==
    IF n = 0 THEN <<>>
    ELSE IF n = 1 THEN _save_label(<<>>, PayloadA, Uuid(1))
    ELSE _save_label(_save_label(<<>>, PayloadA, Uuid(1)), PayloadB, Uuid(2))

\* The store calls that the threads make.
RaceCalls ==
    {[op |-> "save", arg |-> p] : p \in {PayloadA, PayloadADefaults, PayloadB}} \cup
    {[op |-> "delete", arg |-> ("ids" :> List(<<Uuid(1)>>))],
     [op |-> "delete", arg |-> ("ids" :> List(<<Uuid(1), Uuid(2)>>))]}

\* The store after no, one or two saves, its file written, no call running.
InitRace ==
    /\ \E n \in {0, 1, 2} :
          /\ _saved_labels = SavedBefore(n)
          /\ file = IF n = 0 THEN Missing ELSE ArrayFile(json_dump(SavedBefore(n)))
          /\ nuuid = n
    /\ tmpfiles = {}
    /\ sync = "start"
    /\ seed_unique = TRUE
    /\ last = [op |-> "none", written |-> <<>>]
    /\ removed = {}
    /\ threads = [t \in Threads |-> Idle]

\* Thread t moves to `pc` with its locals changed by `locals`.
Goto(t, pc, locals) == threads' = [threads EXCEPT ![t] = [locals EXCEPT !.pc = pc]]

\* A request thread enters _save_label or _delete_labels.
Begin(t) ==
    /\ threads[t].pc = "idle"
    /\ \E call \in RaceCalls :
          Goto(t, "filter", [threads[t] EXCEPT !.op = call.op, !.arg = call.arg])
    /\ UNCHANGED <<_saved_labels, file, tmpfiles, nuuid, sync, seed_unique, last, removed>>

\* The list comprehension of line 39 or of line 58.
Filter(t) ==
    /\ threads[t].pc = "filter"
    /\ Goto(t, "rebind",
            [threads[t] EXCEPT !.filtered =
                IF threads[t].op = "save"
                THEN without_key(_saved_labels, _label_key(threads[t].arg))
                ELSE _delete_labels(_saved_labels, str_all(threads[t].arg["ids"].v))])
    /\ UNCHANGED <<_saved_labels, file, tmpfiles, nuuid, sync, seed_unique, last, removed>>

\* The assignment to the global _saved_labels of line 39 or of line 58.
Rebind(t) ==
    /\ threads[t].pc = "rebind"
    /\ _saved_labels' = threads[t].filtered
    /\ Goto(t, IF threads[t].op = "save" THEN "insert" ELSE "open", threads[t])
    /\ UNCHANGED <<file, tmpfiles, nuuid, sync, seed_unique, last, removed>>

\* Lines 40-50 of _save_label: new_entry and _saved_labels.insert(0, new_entry).
Insert(t) ==
    /\ threads[t].pc = "insert"
    /\ nuuid' = nuuid + 1
    /\ _saved_labels' = <<new_entry(threads[t].arg, Uuid(nuuid + 1))>> \o _saved_labels
    /\ Goto(t, "open", [threads[t] EXCEPT !.entry = new_entry(threads[t].arg, Uuid(nuuid + 1))])
    /\ UNCHANGED <<file, tmpfiles, sync, seed_unique, last, removed>>

\* open(_MEMORY_FILE, 'w') of _persist_memory.
Open(t) ==
    /\ threads[t].pc = "open"
    /\ file' = truncate(file)
    /\ Goto(t, "dump", threads[t])
    /\ UNCHANGED <<_saved_labels, tmpfiles, nuuid, sync, seed_unique, last, removed>>

\* json.dump(_saved_labels, f): the text goes to the buffer of f.
Dump(t) ==
    /\ threads[t].pc = "dump"
    /\ Goto(t, "close", [threads[t] EXCEPT !.buffer = json_dump(_saved_labels)])
    /\ UNCHANGED <<_saved_labels, file, tmpfiles, nuuid, sync, seed_unique, last, removed>>

\* The end of the with block: the buffer is written and the call returns.
Close(t) ==
    /\ threads[t].pc = "close"
    /\ file' = flush(threads[t].buffer, file)
    /\ sync' = "ok"
    /\ last' = [op |-> "persist", written |-> threads[t].buffer]
    /\ Goto(t, "done", threads[t])
    /\ UNCHANGED <<_saved_labels, tmpfiles, nuuid, seed_unique, removed>>

NextRace ==
    \E t \in Threads :
        Begin(t) \/ Filter(t) \/ Rebind(t) \/ Insert(t) \/ Open(t) \/ Dump(t) \/ Close(t)

SpecRace == InitRace /\ [][NextRace]_vars

\* Both threads returned from their store call.
AllDone == \A t \in Threads : threads[t].pc = "done"

\* C15: once concurrent saves and deletes have all returned, without a write
\* error, the file holds exactly the list the last persist call wrote, and
\* that list is the in-memory list.
C15_LastWriterWins ==
    AllDone =>
        /\ file = [kind |-> "array", text |-> last.written]
        /\ Holds(file.text, _saved_labels)

\* C19: once two concurrent saves of the same key have both returned, the
\* list holds exactly one entry of that key.
C19_ConcurrentSavesOneEntry ==
    (/\ AllDone
     /\ \A t \in Threads : threads[t].op = "save"
     /\ _label_key(threads["t1"].arg) = _label_key(threads["t2"].arg)) =>
        Cardinality(WithKey(_saved_labels, _label_key(threads["t1"].arg))) = 1

====
